---- MODULE Spec2Model ----
(***************************************************************************)
(* Model of the ingestion side of tech-news-warmup:                        *)
(*   app/models.py   the articles table (link UNIQUE)                      *)
(*   app/fetcher.py  fetch_rss and fetch_full_content                      *)
(*   app/main.py     lifespan and schedule_fetch                           *)
(*   app/seeder.py   parse_sitemap_urls and seed_articles                  *)
(* The web process (lifespan, then schedule_fetch) is one asyncio event    *)
(* loop: its code runs atomically between two awaits.  The seeder is a     *)
(* separate OS process sharing only the database.  Every action below is   *)
(* one such atomic segment ending at an await (a database statement or an  *)
(* HTTP response).                                                         *)
(***************************************************************************)
EXTENDS Integers, Sequences, FiniteSets, TLC

\* ---------------------------------------------------------------- bounds
MaxFeedLen == 2          \* longest feed the donor serves
MaxSeedLen == 1          \* Settings.MAX_ARTICLES_TO_SEED of the deployment whose
                         \*   seeder runs beside the web process
MaxBatchLen == 2         \* Settings.MAX_ARTICLES_TO_SEED of the deployment whose
                         \*   seeder runs on its own
MaxDocLen == 3           \* most url/loc elements in the sitemap the donor serves
MaxArticlesEnv == 1      \* the deployment's value of Settings.MAX_ARTICLES
FetchIntervalEnv == 1    \* the deployment's value of Settings.FETCH_INTERVAL_MIN

\* ------------------------------------------------------- program constants
SchedMaxArticles == 10   \* max_articles=10 in schedule_fetch
max_backoff == 32        \* max_backoff = 32
SecondsPerMinute == 60   \* settings.FETCH_INTERVAL_MIN * 60

\* random.uniform(0.8, 1.2) in thousandths.  uniform(a, b) is
\* a + (b-a) * random(): 0.8 is returned for random() = 0.0 and, by
\* floating-point rounding, 1.2 for random() = 1 - 2^-53.
JitterLo == 800
JitterHi == 1200
Jitters == {JitterLo, JitterHi}

\* ------------------------------------------------------------ the inputs
None == "<None>"         \* Python's None for an absent attribute
Links == {"p/a", "p/b"}  \* article URLs of the donor site
Texts == {"", "body"}    \* what newspaper's Article.text can hold after parse()

\* feedparser entries are duck-typed: an attribute may be absent.
FeedEntries ==
    { [link |-> "p/a", title |-> "A"],
      [link |-> "p/b"],
      [title |-> "N"],
      [link |-> "", title |-> "E"] }

RECURSIVE SeqsUpTo(_, _)
SeqsUpTo(S, n) ==
    IF n = 0 THEN { <<>> }
    ELSE LET shorter == SeqsUpTo(S, n - 1)
         IN  shorter \cup { Append(s, x) : s \in {t \in shorter : Len(t) = n - 1}, x \in S }

Feeds == SeqsUpTo(FeedEntries, MaxFeedLen)

\* settings.TARGET_PATH_PREFIX
TargetPrefix == "p/"

\* the text of a url/loc element: an article URL, the bare prefix, the prefix
\* followed by blanks, a URL of another section, or None for an empty element
Locs == Links \cup {"p/", "p/ ", "o/b", None}

\* the characters of each string above
Chars ==
    "p/a" :> << "p", "/", "a" >> @@ "p/b" :> << "p", "/", "b" >> @@
    "p/" :> << "p", "/" >> @@ "p/ " :> << "p", "/", " " >> @@
    "o/b" :> << "o", "/", "b" >>

\* the sitemap document: the tag of its root and the url/loc texts in
\* document order
RootTags == {"urlset", "sitemapindex"}
Docs == { [root |-> r, locs |-> l] : r \in RootTags, l \in SeqsUpTo(Locs, MaxDocLen) }

\* ------------------------------------------------------------- the state
VARIABLES
    rows,          \* the articles table, in insertion order
    pc,            \* web process: boot, sched_start, download, loop, insert,
                   \*   except, gather, sleep, crashed
    caller,        \* who called the current fetch_rss: lifespan | schedule_fetch
    max_articles,  \* fetch_rss parameter
    entries,       \* feed.entries of the current run (kept after the run as
                   \*   the feed the donor served last)
    idx,           \* position of the for loop in entries[:max_articles]
    new_articles,  \* fetch_rss local: titles added in this run
    tasks,         \* fetch_rss local: the enrichment coroutines of this run
    exc,           \* fetch_rss: the exception bound in `except Exception as e`
    outcome,       \* how the last fetch_rss call ended: none | returned | raised
    backoff,       \* schedule_fetch local (0: schedule_fetch not started)
    delay,         \* schedule_fetch local, in milliseconds (0: not computed)
    spc,           \* seeder process: idle, check, insert, done, crashed
    article_links, \* seed_articles local
    sidx,          \* position of the seeder's for loop
    urlset,        \* the sitemap document a lone parse_sitemap_urls call is
                   \*   given (None when seed_articles makes the call)
    parsed,        \* history: the last run got and parsed a feed
    clean,         \* history: no insert of the last run failed with a database error
    rerun          \* history: this run directly follows a run that returned, with
                   \*   the same max_articles and the same feed:
                   \*   "no" | "repeat" | "clean" (clean: that run was clean)

vars == << rows, pc, caller, max_articles, entries, idx, new_articles,
           tasks, exc, outcome, backoff, delay, spc, article_links, sidx,
           urlset, parsed, clean, rerun >>

schedVars == << backoff, delay >>
seedVars == << spc, article_links, sidx, urlset >>

\* ------------------------------------------------------- pure operations
Min(a, b) == IF a <= b THEN a ELSE b

\* getattr(entry, name, default)
GetAttr(e, name, default) == IF name \in DOMAIN e THEN e[name] ELSE default

\* mutant: `if link is None`, which lets the empty string through
OnlyNoneIsFalsy(link) == link = None

\* `not link`: None and the empty string are falsy
Falsy(link) == link = None \/ link = ""

\* mutant: the loop runs over feed.entries, without the slice
ConsideredAll(feed, n) == feed

\* feed.entries[:max_articles]
Considered(feed, n) == SubSeq(feed, 1, Min(Len(feed), n))

EntryLink(e) == GetAttr(e, "link", None)
EntryTitle(e) == GetAttr(e, "title", "Untitled")

\* mutant: the dedup gate is gone
NeverExists(table, link) == FALSE

\* select(articles.c.id).where(articles.c.link == link); fetch_one is truthy
Exists(table, link) == \E i \in 1..Len(table) : table[i].link = link

\* mutant: the column is declared without unique=True
NoUniqueConstraint(table, link) == FALSE

\* Column("link", String(500), unique=True): the insert of a link the table
\* already holds raises IntegrityError
UniqueViolation(table, link) == \E i \in 1..Len(table) : table[i].link = link

\* datetime.now(tz=timezone.utc).  Only the order of a row's timestamps
\* matters: the insert stamps the row FirstStamp, and a later now() is later
\* than the stamp the row holds.
FirstStamp == 1
LaterStamp(t) == t + 1

\* Column("id", Integer, primary_key=True): the id the next insert gets
NextId(table) == Len(table) + 1

\* insert(articles).values(...).  pub_date, summary and image_url take no
\* part in the dedup, enrichment and scheduling protocol and are left out.
InsertRow(table, title, link, content, now) ==
    Append(table, [id |-> NextId(table), title |-> title, link |-> link,
                   content |-> content, fetched_at |-> now])

\* mutant: the update statement sets content alone
UpdateKeepsStamp(table, article_id, full_text) ==
    [i \in 1..Len(table) |->
        IF table[i].id = article_id
        THEN [table[i] EXCEPT !.content = full_text]
        ELSE table[i]]

\* mutant: the update statement has lost its where clause
UpdateEveryRow(table, article_id, full_text) ==
    [i \in 1..Len(table) |->
        [table[i] EXCEPT !.content = full_text,
                         !.fetched_at = LaterStamp(table[i].fetched_at)]]

\* update(articles).where(articles.c.id == article_id)
\*     .values(content=full_text, fetched_at=datetime.now(tz=timezone.utc))
UpdateContent(table, article_id, full_text) ==
    [i \in 1..Len(table) |->
        IF table[i].id = article_id
        THEN [table[i] EXCEPT !.content = full_text,
                              !.fetched_at = LaterStamp(table[i].fetched_at)]
        ELSE table[i]]

\* mutant: tasks.append(asyncio.create_task(fetch_full_content(...))), which
\* schedules the coroutine at once
NewTaskStarted(article_id, url) ==
    [id |-> article_id, url |-> url, st |-> "running", text |-> ""]

\* tasks.append(fetch_full_content(db, article_id, link)): a coroutine object,
\* not started until asyncio.gather wraps it in a Task
NewTask(article_id, url) == [id |-> article_id, url |-> url, st |-> "created", text |-> ""]

\* asyncio.gather(*tasks) schedules every coroutine
Scheduled(ts) == [i \in 1..Len(ts) |-> [ts[i] EXCEPT !.st = "running"]]

Terminal == {"done", "fetch_failed", "parse_failed", "update_failed"}
InFlight == {"running", "updating"}

\* mutant: asyncio.wait(tasks, return_when=FIRST_COMPLETED)
GatherFirstCompleted(ts) == \E i \in 1..Len(ts) : ts[i].st \in Terminal

\* `await asyncio.gather(*tasks)` resumes when every task has finished;
\* fetch_full_content catches every Exception, so none propagates
GatherComplete(ts) == \A i \in 1..Len(ts) : ts[i].st \in Terminal

\* The frame of fetch_rss is discarded when it returns or raises: the
\* coroutines never started and the finished tasks go with it, a task the
\* event loop is still running stays.
Unfinished(ts) == SelectSeq(ts, LAMBDA t : t.st \in InFlight)

\* mutant: a task that has stored its text is run again
EndTaskRetries(ts, i, st) ==
    [ts EXCEPT ![i].st = IF st = "done" THEN "running" ELSE st]

\* mutant: a failing task cancels the tasks still in flight
EndTaskCancelsSiblings(ts, i, st) ==
    [k \in 1..Len(ts) |->
        IF k = i THEN [ts[k] EXCEPT !.st = st]
        ELSE IF st # "done" /\ ts[k].st \in InFlight
             THEN [ts[k] EXCEPT !.st = "fetch_failed"]
             ELSE ts[k]]

\* one task ends (return None / return full_text) without touching its siblings
EndTask(ts, i, st) == [ts EXCEPT ![i].st = st]

\* base_interval = settings.FETCH_INTERVAL_MIN * 60
base_interval == FetchIntervalEnv * SecondsPerMinute

\* mutant: backoff *= 2, without the cap
DoubleUncapped(b) == b * 2

\* backoff = min(backoff * 2, max_backoff)
NextBackoff(b) == Min(b * 2, max_backoff)

\* mutant: delay = base_interval * jitter
DelayIgnoresBackoff(b, jitter) == base_interval * jitter

\* delay = base_interval * backoff; delay *= jitter    (milliseconds)
Delay(b, jitter) == base_interval * b * jitter

\* ------------------------------------------------- parse_sitemap_urls
\* `if url`: None and the empty string are falsy
Truthy(url) == url # None /\ url # ""

\* url.startswith(prefix), on the characters
StartsWith(u, prefix) ==
    Len(u) >= Len(prefix) /\ SubSeq(u, 1, Len(prefix)) = prefix

Whitespace == {" "}

\* mutant: the suffix is taken as it is
NoStrip(cs) == cs

\* str.strip(): leading and trailing whitespace removed
RECURSIVE Strip(_)
Strip(cs) ==
    IF cs = << >> THEN cs
    ELSE IF Head(cs) \in Whitespace THEN Strip(Tail(cs))
    ELSE IF cs[Len(cs)] \in Whitespace THEN Strip(SubSeq(cs, 1, Len(cs) - 1))
    ELSE cs

\* url[len(settings.TARGET_PATH_PREFIX):].strip()
Suffix(url, prefix) ==
    Strip(SubSeq(Chars[url], Len(Chars[prefix]) + 1, Len(Chars[url])))

\* the for loop over root.findall("s:url/s:loc"), from element i on, with
\* the list built so far: append the URL that passes both tests, return as
\* soon as the list holds limit URLs
RECURSIVE WalkLocs(_, _, _, _, _)
WalkLocs(locs, i, urls, prefix, limit) ==
    IF i > Len(locs) THEN urls
    ELSE LET url == locs[i]
         IN  IF /\ Truthy(url)
                /\ StartsWith(Chars[url], Chars[prefix])
                /\ Suffix(url, prefix) # << >>
             THEN IF Len(urls) + 1 >= limit
                  THEN Append(urls, url)
                  ELSE WalkLocs(locs, i + 1, Append(urls, url), prefix, limit)
             ELSE WalkLocs(locs, i + 1, urls, prefix, limit)

\* parse_sitemap_urls once the document is downloaded: a root that is not a
\* urlset yields the empty list
parse_sitemap_urls(doc, prefix, limit) ==
    IF doc.root # "urlset" THEN << >>
    ELSE WalkLocs(doc.locs, 1, << >>, prefix, limit)

\* every list parse_sitemap_urls can return to seed_articles: the empty
\* list when the download or the XML parser fails, else the walk's result
Sitemaps ==
    { << >> } \cup { parse_sitemap_urls(d, TargetPrefix, MaxSeedLen) : d \in Docs }

\* the non-empty lists it can return under the larger limit
Batches ==
    { parse_sitemap_urls(d, TargetPrefix, MaxBatchLen) : d \in Docs } \ { << >> }

\* ------------------------------------------------------------------ Init
Init ==
    /\ rows = <<>>
    /\ pc = "boot"
    /\ caller = "none"
    /\ max_articles = 0
    /\ entries = <<>>
    /\ idx = 1
    /\ new_articles = <<>>
    /\ tasks = <<>>
    /\ exc = "none"
    /\ outcome = "none"
    /\ backoff = 0
    /\ delay = 0
    /\ spc = "idle"
    /\ article_links = <<>>
    /\ sidx = 1
    /\ urlset = None
    /\ parsed = FALSE
    /\ clean = FALSE
    /\ rerun = "no"

\* ------------------------------------------- fetch_rss: call and return
\* the call of fetch_rss up to `await client.get(rss_url)`
BeginRun(who, m) ==
    /\ caller' = who
    /\ max_articles' = m
    /\ new_articles' = <<>>
    /\ outcome' = "none"
    /\ pc' = "download"
    /\ parsed' = (parsed /\ outcome = "returned" /\ m = max_articles)
    /\ rerun' = "no"
    /\ UNCHANGED clean

\* mutant: schedule_fetch does not reset backoff after a run that returned
ReturnsKeepsBackoff ==
    /\ outcome' = "returned"
    /\ idx' = 1
    /\ tasks' = Unfinished(tasks)
    /\ IF caller = "lifespan"
       THEN pc' = "sched_start" /\ UNCHANGED schedVars
       ELSE /\ pc' = "sleep"
            /\ UNCHANGED backoff
            /\ \E j \in Jitters : delay' = Delay(backoff, j)

\* fetch_rss returns new_articles.  In lifespan the scheduler task is created
\* next; in schedule_fetch backoff is reset, the delay drawn and the loop sleeps.
Returns ==
    /\ outcome' = "returned"
    /\ idx' = 1
    /\ tasks' = Unfinished(tasks)
    /\ IF caller = "lifespan"
       THEN pc' = "sched_start" /\ UNCHANGED schedVars
       ELSE /\ pc' = "sleep"
            /\ backoff' = 1
            /\ \E j \in Jitters : delay' = Delay(1, j)

\* mutant: schedule_fetch has no try/except around fetch_rss, the exception
\* ends the scheduler task
RaisesUncaught ==
    /\ outcome' = "raised"
    /\ idx' = 1
    /\ tasks' = Unfinished(tasks)
    /\ pc' = "crashed"
    /\ UNCHANGED schedVars

\* an exception leaves fetch_rss.  lifespan does not catch it (startup fails);
\* schedule_fetch catches it, doubles backoff, draws the delay and sleeps.
Raises ==
    /\ outcome' = "raised"
    /\ idx' = 1
    /\ tasks' = Unfinished(tasks)
    /\ IF caller = "lifespan"
       THEN pc' = "crashed" /\ UNCHANGED schedVars
       ELSE /\ pc' = "sleep"
            /\ backoff' = NextBackoff(backoff)
            /\ \E j \in Jitters : delay' = Delay(NextBackoff(backoff), j)

\* --------------------------------------------------------------- main.py
\* lifespan: connect, create_all, then the startup fetch_rss
LifespanStart ==
    /\ pc = "boot"
    /\ BeginRun("lifespan", MaxArticlesEnv)
    /\ UNCHANGED << rows, entries, idx, tasks, exc, schedVars, seedVars >>

\* asyncio.create_task(schedule_fetch(app)): backoff = 1, first cycle
SchedulerStart ==
    /\ pc = "sched_start"
    /\ backoff' = 1
    /\ BeginRun("schedule_fetch", SchedMaxArticles)
    /\ UNCHANGED << rows, entries, idx, tasks, exc, delay, seedVars >>

\* mutant: the cycle starts fetch_rss with asyncio.create_task and does not
\* await it, so the next cycle can begin while the run waits in gather
WakeWhileRunning ==
    /\ pc \in {"sleep", "gather"}
    /\ caller = "schedule_fetch"
    /\ delay' = 0
    /\ BeginRun("schedule_fetch", SchedMaxArticles)
    /\ UNCHANGED << rows, entries, idx, tasks, exc, backoff, seedVars >>

\* asyncio.sleep(delay) is over: the next cycle (delay is dead until the
\* cycle assigns it again)
Wake ==
    /\ pc = "sleep"
    /\ delay' = 0
    /\ BeginRun("schedule_fetch", SchedMaxArticles)
    /\ UNCHANGED << rows, entries, idx, tasks, exc, backoff, seedVars >>

\* ------------------------------------------------------------ fetcher.py
\* client.get / raise_for_status raises: return new_articles (empty)
FeedDownloadFails ==
    /\ pc = "download"
    /\ Returns
    /\ parsed' = FALSE
    /\ entries' = <<>>
    /\ UNCHANGED << rows, caller, max_articles, new_articles, exc,
                    seedVars, clean, rerun >>

\* mutant: a bozo feed raises out of fetch_rss
FeedBozoRaises ==
    /\ pc = "download"
    /\ Raises
    /\ parsed' = FALSE
    /\ entries' = <<>>
    /\ UNCHANGED << rows, caller, max_articles, new_articles, exc,
                    seedVars, clean, rerun >>

\* feed.bozo: return new_articles (empty)
FeedBozo ==
    /\ pc = "download"
    /\ Returns
    /\ parsed' = FALSE
    /\ entries' = <<>>
    /\ UNCHANGED << rows, caller, max_articles, new_articles, exc,
                    seedVars, clean, rerun >>

\* the feed parses: tasks = [], the for loop starts
FeedParsed ==
    /\ pc = "download"
    /\ \E f \in Feeds :
        /\ entries' = f
        /\ rerun' = IF parsed /\ f = entries
                    THEN (IF clean THEN "clean" ELSE "repeat")
                    ELSE "no"
    /\ parsed' = TRUE
    /\ clean' = TRUE
    /\ tasks' = <<>>
    /\ idx' = 1
    /\ pc' = "loop"
    /\ UNCHANGED << rows, caller, max_articles, new_articles, exc, outcome,
                    schedVars, seedVars >>

CurrentEntry == Considered(entries, max_articles)[idx]
InLoop == pc = "loop" /\ idx <= Len(Considered(entries, max_articles))

\* if not link: continue
SkipNoLink ==
    /\ InLoop
    /\ Falsy(EntryLink(CurrentEntry))
    /\ idx' = idx + 1
    /\ UNCHANGED << rows, pc, caller, max_articles, entries, new_articles,
                    tasks, exc, outcome, schedVars, seedVars, parsed, clean, rerun >>

\* exists = await db.fetch_one(query); if exists: continue
\* The statement is outside every try: a database error leaves fetch_rss.
DedupCheck ==
    /\ InLoop
    /\ ~Falsy(EntryLink(CurrentEntry))
    /\ \/ /\ Raises
          /\ parsed' = FALSE
          /\ entries' = <<>>
       \/ /\ Exists(rows, EntryLink(CurrentEntry))
          /\ idx' = idx + 1
          /\ UNCHANGED << pc, entries, tasks, outcome, schedVars, parsed >>
       \/ /\ ~Exists(rows, EntryLink(CurrentEntry))
          /\ pc' = "insert"
          /\ UNCHANGED << idx, entries, tasks, outcome, schedVars, parsed >>
    /\ UNCHANGED << rows, caller, max_articles, new_articles, exc,
                    seedVars, clean, rerun >>

\* mutant: new_articles.append(title) comes before the insert statement
AppendsBeforeInsert ==
    /\ pc = "insert"
    /\ LET link == EntryLink(CurrentEntry)
           title == EntryTitle(CurrentEntry)
       IN  /\ new_articles' = Append(new_articles, title)
           /\ \/ /\ ~UniqueViolation(rows, link)
                 /\ rows' = InsertRow(rows, title, link, "", FirstStamp)
                 /\ tasks' = Append(tasks, NewTask(NextId(rows), link))
                 /\ idx' = idx + 1
                 /\ pc' = "loop"
                 /\ UNCHANGED << exc, clean >>
              \/ /\ UniqueViolation(rows, link)
                 /\ exc' = "IntegrityError"
                 /\ pc' = "except"
                 /\ UNCHANGED << rows, tasks, idx, clean >>
              \/ /\ exc' = "DatabaseError"
                 /\ pc' = "except"
                 /\ clean' = FALSE
                 /\ UNCHANGED << rows, tasks, idx >>
    /\ UNCHANGED << caller, max_articles, entries, outcome, schedVars, seedVars,
                    parsed, rerun >>

\* article_id = await db.execute(ins) inside the try: on success the title
\* and the enrichment coroutine are appended, on an exception the handler runs
InsertArticle ==
    /\ pc = "insert"
    /\ LET link == EntryLink(CurrentEntry)
           title == EntryTitle(CurrentEntry)
       IN  \/ /\ ~UniqueViolation(rows, link)
              /\ rows' = InsertRow(rows, title, link, "", FirstStamp)
              /\ new_articles' = Append(new_articles, title)
              /\ tasks' = Append(tasks, NewTask(NextId(rows), link))
              /\ idx' = idx + 1
              /\ pc' = "loop"
              /\ UNCHANGED << exc, clean >>
           \/ /\ UniqueViolation(rows, link)
              /\ exc' = "IntegrityError"
              /\ pc' = "except"
              /\ UNCHANGED << rows, new_articles, tasks, idx, clean >>
           \/ /\ exc' = "DatabaseError"
              /\ pc' = "except"
              /\ clean' = FALSE
              /\ UNCHANGED << rows, new_articles, tasks, idx >>
    /\ UNCHANGED << caller, max_articles, entries, outcome, schedVars, seedVars,
                    parsed, rerun >>

\* mutant: the handler re-raises, the exception leaves fetch_rss
InsertPropagates ==
    /\ pc = "except"
    /\ exc' = "none"
    /\ Raises
    /\ parsed' = FALSE
    /\ UNCHANGED << rows, caller, max_articles, entries, new_articles,
                    seedVars, clean, rerun >>

\* except Exception as e: logger.exception(...); the loop goes on
InsertFailed ==
    /\ pc = "except"
    /\ exc' = "none"
    /\ idx' = idx + 1
    /\ pc' = "loop"
    /\ UNCHANGED << rows, caller, max_articles, entries, new_articles, tasks,
                    outcome, schedVars, seedVars, parsed, clean, rerun >>

\* the loop is over: if tasks: await asyncio.gather(*tasks); else return
LoopEnd ==
    /\ pc = "loop"
    /\ idx > Len(Considered(entries, max_articles))
    /\ IF tasks # <<>>
       THEN /\ tasks' = Scheduled(tasks)
            /\ pc' = "gather"
            /\ UNCHANGED << idx, outcome, schedVars >>
       ELSE Returns
    /\ UNCHANGED << rows, caller, max_articles, entries, new_articles, exc,
                    seedVars, parsed, clean, rerun >>

\* fetch_full_content: the page response arrives; on success the page is
\* parsed and the update statement issued
EnrichPage(i) ==
    /\ tasks[i].st = "running"
    /\ \/ tasks' = EndTask(tasks, i, "fetch_failed")
       \/ tasks' = EndTask(tasks, i, "parse_failed")
       \/ \E t \in Texts : tasks' = [tasks EXCEPT ![i].st = "updating", ![i].text = t]
    /\ UNCHANGED << rows, pc, caller, max_articles, entries, idx, new_articles,
                    exc, outcome, schedVars, seedVars, parsed, clean, rerun >>

\* fetch_full_content: await db.execute(update ...) inside try/except
EnrichUpdate(i) ==
    /\ tasks[i].st = "updating"
    /\ \/ /\ rows' = UpdateContent(rows, tasks[i].id, tasks[i].text)
          /\ tasks' = EndTask(tasks, i, "done")
       \/ /\ tasks' = EndTask(tasks, i, "update_failed")
          /\ UNCHANGED rows
    /\ UNCHANGED << pc, caller, max_articles, entries, idx, new_articles,
                    exc, outcome, schedVars, seedVars, parsed, clean, rerun >>

\* gather resumes fetch_rss, which returns new_articles
GatherDone ==
    /\ pc = "gather"
    /\ GatherComplete(tasks)
    /\ Returns
    /\ UNCHANGED << rows, caller, max_articles, entries, new_articles, exc,
                    seedVars, parsed, clean, rerun >>

\* ------------------------------------------------------------- seeder.py
\* what Article(link).download(); parse() can yield: (title, text)
Pages == { [title |-> "", text |-> ""], [title |-> "S", text |-> "body"] }

\* article_links = await parse_sitemap_urls(settings); empty: return
SeedStart ==
    /\ spc = "idle"
    /\ \E m \in Sitemaps :
        /\ article_links' = IF m = <<>> THEN <<>> ELSE m
        /\ spc' = IF m = <<>> THEN "done" ELSE "check"
    /\ sidx' = 1
    /\ UNCHANGED << rows, pc, caller, max_articles, entries, idx, new_articles,
                    tasks, exc, outcome, schedVars, urlset, parsed, clean, rerun >>

\* exists = await db.fetch_one(query), outside the try: an error ends the
\* seeder process (its locals go with it)
SeedCheck ==
    /\ spc = "check"
    /\ sidx <= Len(article_links)
    /\ \/ /\ spc' = "crashed"
          /\ article_links' = <<>>
          /\ sidx' = 1
       \/ /\ Exists(rows, article_links[sidx])
          /\ sidx' = sidx + 1
          /\ UNCHANGED << spc, article_links >>
       \/ /\ ~Exists(rows, article_links[sidx])
          /\ spc' = "insert"
          /\ UNCHANGED << sidx, article_links >>
    /\ UNCHANGED << rows, pc, caller, max_articles, entries, idx, new_articles,
                    tasks, exc, outcome, schedVars, urlset, parsed, clean, rerun >>

\* mutant: the try block has no handler, a failure ends the seeder
SeedInsertAborts ==
    /\ spc = "insert"
    /\ LET link == article_links[sidx]
       IN  \/ /\ \E p \in Pages :
                   /\ ~UniqueViolation(rows, link)
                   /\ rows' = InsertRow(rows, IF p.title # "" THEN p.title ELSE "Untitled",
                                        link, p.text, FirstStamp)
              /\ sidx' = sidx + 1
              /\ spc' = "check"
              /\ UNCHANGED article_links
           \/ /\ spc' = "crashed"
              /\ article_links' = <<>>
              /\ sidx' = 1
              /\ UNCHANGED rows
    /\ UNCHANGED << pc, caller, max_articles, entries, idx, new_articles,
                    tasks, exc, outcome, schedVars, urlset, parsed, clean, rerun >>

\* the try block: download, parse, build the row, await db.execute(ins).
\* The insert of a held link raises IntegrityError; download, parse or the
\* statement may raise any other Exception.  The handler logs a warning and
\* the loop goes on with the next link.
SeedInsert ==
    /\ spc = "insert"
    /\ LET link == article_links[sidx]
       IN  \/ \E p \in Pages :
                /\ ~UniqueViolation(rows, link)
                /\ rows' = InsertRow(rows, IF p.title # "" THEN p.title ELSE "Untitled",
                                     link, p.text, FirstStamp)
           \/ /\ UniqueViolation(rows, link)
              /\ UNCHANGED rows
           \/ UNCHANGED rows
    /\ sidx' = sidx + 1
    /\ spc' = "check"
    /\ UNCHANGED << pc, caller, max_articles, entries, idx, new_articles,
                    tasks, exc, outcome, schedVars, article_links, urlset, parsed,
                    clean, rerun >>

\* the for loop is over: "Seeding process finished.", the process exits
SeedEnd ==
    /\ spc = "check"
    /\ sidx > Len(article_links)
    /\ spc' = "done"
    /\ article_links' = <<>>
    /\ sidx' = 1
    /\ UNCHANGED << rows, pc, caller, max_articles, entries, idx, new_articles,
                    tasks, exc, outcome, schedVars, urlset, parsed, clean, rerun >>

\* ---------------------------------------------------------- specification
Next ==
    \/ LifespanStart
    \/ SchedulerStart
    \/ Wake
    \/ FeedDownloadFails
    \/ FeedBozo
    \/ FeedParsed
    \/ SkipNoLink
    \/ DedupCheck
    \/ InsertArticle
    \/ InsertFailed
    \/ LoopEnd
    \/ \E i \in 1..Len(tasks) : EnrichPage(i)
    \/ \E i \in 1..Len(tasks) : EnrichUpdate(i)
    \/ GatherDone
    \/ SeedStart
    \/ SeedCheck
    \/ SeedInsert
    \/ SeedEnd

Spec == Init /\ [][Next]_vars

\* The steps of the web process once schedule_fetch runs.  The event loop
\* resumes a coroutine whose await has completed, and every await of the
\* loop completes: the HTTP clients carry timeout=15, a database statement
\* answers or raises, asyncio.sleep(delay) ends after delay seconds.
WebStep ==
    \/ Wake
    \/ FeedDownloadFails
    \/ FeedBozo
    \/ FeedParsed
    \/ SkipNoLink
    \/ DedupCheck
    \/ InsertArticle
    \/ InsertFailed
    \/ LoopEnd
    \/ \E i \in 1..Len(tasks) : EnrichPage(i)
    \/ \E i \in 1..Len(tasks) : EnrichUpdate(i)
    \/ GatherDone

\* the web process is not torn down: its event loop keeps running
FairSpec == Spec /\ WF_vars(WebStep)

\* ------------------------------------ parse_sitemap_urls on its own
\* the function is given a downloaded sitemap document
SitemapInit ==
    /\ urlset \in Docs
    /\ rows = <<>>
    /\ pc = "boot"
    /\ caller = "none"
    /\ max_articles = 0
    /\ entries = <<>>
    /\ idx = 1
    /\ new_articles = <<>>
    /\ tasks = <<>>
    /\ exc = "none"
    /\ outcome = "none"
    /\ backoff = 0
    /\ delay = 0
    /\ spc = "idle"
    /\ article_links = <<>>
    /\ sidx = 1
    /\ parsed = FALSE
    /\ clean = FALSE
    /\ rerun = "no"

\* article_links = await parse_sitemap_urls(settings)
ParseSitemap ==
    /\ spc = "idle"
    /\ article_links' = parse_sitemap_urls(urlset, TargetPrefix, MaxSeedLen)
    /\ spc' = "parsed"
    /\ UNCHANGED << rows, pc, caller, max_articles, entries, idx, new_articles,
                    tasks, exc, outcome, schedVars, sidx, urlset, parsed, clean, rerun >>

SitemapNext == ParseSitemap

SitemapSpec == SitemapInit /\ [][SitemapNext]_vars

\* ---------------------------------------------- seed_articles on its own
\* what storage can hold when the seeder is run: nothing, or a row the
\* pipeline inserted and enriched
StoredBefore ==
    { << >>,
      UpdateContent(InsertRow(<< >>, "A", "p/a", "", FirstStamp), 1, "body") }

\* python -m app.seeder with the web process not running: seed_articles has
\* got a non-empty article_links and enters its for loop
SeederInit ==
    /\ rows \in StoredBefore
    /\ article_links \in Batches
    /\ spc = "check"
    /\ sidx = 1
    /\ urlset = None
    /\ pc = "boot"
    /\ caller = "none"
    /\ max_articles = 0
    /\ entries = <<>>
    /\ idx = 1
    /\ new_articles = <<>>
    /\ tasks = <<>>
    /\ exc = "none"
    /\ outcome = "none"
    /\ backoff = 0
    /\ delay = 0
    /\ parsed = FALSE
    /\ clean = FALSE
    /\ rerun = "no"

SeederNext ==
    \/ SeedCheck
    \/ SeedInsert
    \/ SeedEnd

SeederSpec == SeederInit /\ [][SeederNext]_vars

\* ================================================================ claims
LinkRows(link) == { i \in 1..Len(rows) : rows[i].link = link }
Running == pc \in {"download", "loop", "insert", "except", "gather"}
LinkBearing(e) == ~Falsy(EntryLink(e))
FalsyTitles == { EntryTitle(e) : e \in { x \in FeedEntries : Falsy(EntryLink(x)) } }

\* C1: in every reachable state no two rows of the articles table share a
\* link, also when one feed fetch lists the same link twice and when the
\* seeder and the pipeline interleave.
C1_UniqueLinks ==
    \A i, j \in 1..Len(rows) : rows[i].link = rows[j].link => i = j

\* a run has gone through a feed that lists one link twice, and the link is stored
C1_Witness ==
    /\ pc = "loop"
    /\ Len(entries) = 2
    /\ max_articles >= 2
    /\ idx = 3
    /\ LinkBearing(entries[1])
    /\ EntryLink(entries[1]) = EntryLink(entries[2])
    /\ Cardinality(LinkRows(EntryLink(entries[1]))) = 1
    /\ new_articles # <<>>

C3_NoLinkSkipped ==
    /\ [](/\ \A i \in 1..Len(rows) : ~(rows[i].link = None \/ rows[i].link = "")
          /\ \A k \in 1..Len(tasks) : ~(tasks[k].url = None \/ tasks[k].url = "")
          /\ \A k \in 1..Len(new_articles) : new_articles[k] \notin FalsyTitles)
    /\ [][(/\ pc = "loop"
           /\ idx <= Len(Considered(entries, max_articles))
           /\ EntryLink(Considered(entries, max_articles)[idx]) \in {None, ""}
           /\ <<pc, idx>>' # <<pc, idx>>)
          => (/\ pc' = "loop"
              /\ idx' = idx + 1
              /\ rows' = rows
              /\ tasks' = tasks
              /\ new_articles' = new_articles)]_vars

\* a linkless first entry was skipped and the entry after it was inserted
C3_Witness ==
    /\ pc = "loop"
    /\ Len(entries) = 2
    /\ idx = 3
    /\ ~LinkBearing(entries[1])
    /\ LinkBearing(entries[2])
    /\ new_articles = << EntryTitle(entries[2]) >>
    /\ Len(tasks) = 1

\* C4: a row whose content is non-empty keeps a non-empty content in every
\* later state.
C4_ContentNeverReverts ==
    [][\A i \in 1..Len(rows) :
          rows[i].content # "" => (i <= Len(rows') /\ rows'[i].content # "")]_vars

\* an enrichment has filled a row while another row holds a body too
C4_Witness ==
    /\ Len(rows) = 2
    /\ \E i \in 1..2 : rows[i].content # "" /\ rows[i].fetched_at # FirstStamp
    /\ \A i \in 1..2 : rows[i].content # ""

FreshRow(k) ==
    [id |-> tasks[k].id, title |-> new_articles[k], link |-> tasks[k].url,
     content |-> "", fetched_at |-> FirstStamp]
FailedStates == {"fetch_failed", "parse_failed", "update_failed"}

\* C5 as stated: once the page fetch of a task has succeeded and the
\* extraction has produced a text, the finished task leaves its row with a
\* non-empty content and a new fetched_at; a failed page fetch leaves the row
\* as inserted.
C5_AsStated ==
    \A k \in 1..Len(tasks) :
        /\ (tasks[k].st \in {"done", "update_failed"} /\ tasks[k].text # "") =>
              /\ rows[tasks[k].id].content # ""
              /\ rows[tasks[k].id].fetched_at # FirstStamp
        /\ tasks[k].st = "fetch_failed" => rows[tasks[k].id] = FreshRow(k)

\* C5 amended: a task whose page fetch, extraction and update statement all
\* succeed leaves its row with the extracted text as content (non-empty when
\* the text is) and a new fetched_at; a task whose page fetch, extraction or
\* update statement fails leaves every field of the row as inserted.
C5_Enrichment ==
    \A k \in 1..Len(tasks) :
        /\ tasks[k].st = "done" =>
              /\ rows[tasks[k].id].content = tasks[k].text
              /\ rows[tasks[k].id].fetched_at > FirstStamp
              /\ [rows[tasks[k].id] EXCEPT !.content = "", !.fetched_at = FirstStamp]
                    = FreshRow(k)
        /\ tasks[k].st # "done" => rows[tasks[k].id] = FreshRow(k)

\* one task has stored a body while the page fetch of its sibling has failed
C5_Witness ==
    /\ pc = "gather"
    /\ \E k \in 1..Len(tasks) :
        /\ tasks[k].st = "done"
        /\ rows[tasks[k].id].content = "body"
    /\ \E k \in 1..Len(tasks) : tasks[k].st = "fetch_failed"

\* C6: an enrichment task is in flight only while its run waits in gather:
\* none is left once the run has returned or raised.
C6_NoTaskOutlivesRun ==
    (\E k \in 1..Len(tasks) : tasks[k].st \in InFlight)
        => (pc = "gather" /\ outcome = "none")

\* a run that enriched a row has returned
C6_Witness ==
    /\ pc = "sleep"
    /\ outcome = "returned"
    /\ Len(new_articles) = 2
    /\ \E i \in 1..Len(rows) : rows[i].fetched_at > FirstStamp

\* C7: the failure of one enrichment task changes no sibling task, no row and
\* not the list; the run returns only when every task has reached its own end,
\* with the title of every row it inserted.
C7_IndependentTasks ==
    [][pc = "gather" =>
          /\ \A i \in 1..Len(tasks) :
                (/\ tasks[i].st \in InFlight
                 /\ Len(tasks') = Len(tasks)
                 /\ tasks'[i].st \in FailedStates)
                => /\ \A j \in 1..Len(tasks) : j # i => tasks'[j] = tasks[j]
                   /\ rows' = rows
                   /\ new_articles' = new_articles
                   /\ pc' = "gather"
          /\ pc' # "gather" =>
                /\ \A k \in 1..Len(tasks) : tasks[k].st \in Terminal
                /\ outcome' = "returned"
                /\ new_articles' = new_articles
                /\ Len(new_articles) = Len(tasks)
                /\ \A k \in 1..Len(tasks) :
                      new_articles[k] = rows[tasks[k].id].title]_vars

\* of two tasks one has failed and the other has stored its text
C7_Witness ==
    /\ pc = "gather"
    /\ Len(tasks) = 2
    /\ \E i, j \in 1..2 :
        /\ tasks[i].st \in FailedStates
        /\ tasks[j].st = "done"
        /\ rows[tasks[j].id].content = "body"

\* C8: when the pipeline and the seeder have both passed the existence check
\* for a link, the link ends with exactly one row; the path whose insert the
\* unique constraint rejects adds no row, no title and no enrichment task,
\* does not raise, and goes on with its next entry.
C8_RaceIsSkipped ==
    /\ []((pc = "except" /\ exc = "IntegrityError")
            => Cardinality(LinkRows(EntryLink(CurrentEntry))) = 1)
    /\ [][(/\ pc = "insert"
           /\ \E i \in 1..Len(rows) : rows[i].link = EntryLink(CurrentEntry)
           /\ pc' # "insert")
          => (/\ pc' = "except"
              /\ rows' = rows
              /\ new_articles' = new_articles
              /\ tasks' = tasks
              /\ outcome' = "none")]_vars
    /\ [][(pc = "except" /\ pc' # "except")
          => (/\ pc' = "loop"
              /\ idx' = idx + 1
              /\ rows' = rows
              /\ new_articles' = new_articles
              /\ tasks' = tasks
              /\ outcome' = "none")]_vars
    /\ [][(/\ spc = "insert"
           /\ \E i \in 1..Len(rows) : rows[i].link = article_links[sidx]
           /\ spc' # "insert")
          => (/\ spc' = "check"
              /\ sidx' = sidx + 1
              /\ rows' = rows)]_vars

\* the pipeline passed the check, the seeder inserted the link, and the
\* pipeline's insert was rejected
C8_Witness ==
    /\ pc = "except"
    /\ exc = "IntegrityError"
    /\ spc \in {"check", "done"}
    /\ \E i \in LinkRows(EntryLink(CurrentEntry)) : rows[i].title \in {"S", "Untitled"}
    /\ new_articles = <<>>

\* C9: the backoff multiplier of schedule_fetch starts at 1, is 1 after a
\* run that returned, is doubled up to 32 after a run that raised, and so is
\* always one of 1, 2, 4, 8, 16, 32.
C9_Backoff ==
    /\ [](caller = "schedule_fetch" => backoff \in {1, 2, 4, 8, 16, 32})
    /\ [][(caller # "schedule_fetch" /\ caller' = "schedule_fetch")
          => backoff' = 1]_vars
    /\ [][(caller = "schedule_fetch" /\ outcome = "none" /\ outcome' = "returned")
          => backoff' = 1]_vars
    /\ [][(caller = "schedule_fetch" /\ outcome = "none" /\ outcome' = "raised")
          => backoff' = (IF 2 * backoff <= 32 THEN 2 * backoff ELSE 32)]_vars
    /\ [][(caller = "schedule_fetch" /\ caller' = "schedule_fetch" /\ backoff' # backoff)
          => (outcome = "none" /\ outcome' \in {"returned", "raised"})]_vars

\* five runs in a row have raised and the sixth raises at the cap
C9_Witness ==
    /\ pc = "sleep"
    /\ outcome = "raised"
    /\ backoff = 32
    /\ delay = Delay(32, JitterHi)

\* C10 as stated: every sleep is base x backoff x jitter with jitter in
\* [0.8, 1.2): after a run that raised at least 1.6 x base and at most
\* 32 x 1.2 x base, after a run that returned in [0.8 x base, 1.2 x base).
C10_AsStated ==
    pc = "sleep" =>
        /\ 800 * base_interval * backoff <= delay
        /\ delay < 1200 * base_interval * backoff
        /\ outcome = "raised" =>
              (1600 * base_interval <= delay /\ delay <= 32 * 1200 * base_interval)
        /\ outcome = "returned" =>
              (800 * base_interval <= delay /\ delay < 1200 * base_interval)

\* C10 amended: the jitter interval is closed, [0.8, 1.2]: the sleep after a
\* run that returned is in [0.8 x base, 1.2 x base], after a run that raised
\* in [1.6 x base, 32 x 1.2 x base].
C10_Delay ==
    pc = "sleep" =>
        /\ 800 * base_interval * backoff <= delay
        /\ delay <= 1200 * base_interval * backoff
        /\ outcome = "raised" =>
              (1600 * base_interval <= delay /\ delay <= 32 * 1200 * base_interval)
        /\ outcome = "returned" =>
              (800 * base_interval <= delay /\ delay <= 1200 * base_interval)

\* the loop sleeps after a first raise, then after a run that returned
C10_Witness ==
    /\ pc = "sleep"
    /\ outcome = "raised"
    /\ backoff = 2
    /\ delay = 2 * 800 * base_interval

\* a fetch_rss call begins in this step
RunStarts == pc # "download" /\ pc' = "download"

\* C11: a fetch_rss run of the web process starts only when none is active:
\* the run of lifespan is the first, the scheduler's first run starts after
\* it has returned, and every later run starts out of the sleep that follows
\* the end (return or raise) of the run before it, with none of that run's
\* enrichment tasks still in flight.
C11_OneRunAtATime ==
    /\ [](Running <=> (outcome = "none" /\ pc # "boot"))
    /\ [][RunStarts =>
            /\ ~Running
            /\ \A k \in 1..Len(tasks) : tasks[k].st \notin InFlight
            /\ \/ pc = "boot" /\ caller' = "lifespan" /\ backoff = 0
               \/ /\ pc = "sched_start"
                  /\ caller = "lifespan"
                  /\ outcome = "returned"
                  /\ caller' = "schedule_fetch"
               \/ /\ pc = "sleep"
                  /\ caller = "schedule_fetch"
                  /\ outcome \in {"returned", "raised"}
                  /\ delay > 0
                  /\ caller' = "schedule_fetch"]_vars

\* the scheduler has begun the cycle that follows a run that raised
C11_Witness ==
    /\ pc = "download"
    /\ caller = "schedule_fetch"
    /\ outcome = "none"
    /\ backoff = 2
    /\ rows # <<>>

\* C12: once schedule_fetch runs, every run, returned or raised, is followed
\* by a sleep, and every sleep by the start of another run; the scheduler
\* task never ends.
C12_SchedulerNeverStops ==
    /\ [](caller = "schedule_fetch" => pc # "crashed")
    /\ (caller = "schedule_fetch" /\ pc # "sleep") ~> (pc = "sleep")
    /\ (pc = "sleep") ~> (pc = "download" /\ outcome = "none")

\* the scheduler has begun another run after two runs in a row have raised
C12_Witness ==
    /\ pc = "download"
    /\ caller = "schedule_fetch"
    /\ outcome = "none"
    /\ backoff = 4

\* the step in which fetch_rss gives up on the feed (download error, HTTP
\* error status, bozo)
FeedGivenUp == pc = "download" /\ pc' \notin {"download", "loop"}

\* C13: when the feed download fails or the parser reports bozo, fetch_rss
\* returns the empty list and does not raise; from its call to its return
\* the run inserts no row, updates no row and launches no enrichment task.
C13_FeedFailureIsSoft ==
    /\ [](pc = "download" => (new_articles = <<>> /\ tasks = <<>>))
    /\ [][RunStarts => rows' = rows]_vars
    /\ [][FeedGivenUp =>
            /\ outcome' = "returned"
            /\ pc' \in {"sched_start", "sleep"}
            /\ new_articles' = <<>>
            /\ tasks' = <<>>
            /\ rows' = rows]_vars

\* fetch_rss has given up on the feed and returned to the scheduler, with
\* rows of earlier runs in storage
C13_Witness ==
    /\ pc = "sleep"
    /\ outcome = "returned"
    /\ ~parsed
    /\ new_articles = <<>>
    /\ \E i \in 1..Len(rows) : rows[i].title = "A"

\* C14: a run works on the first max_articles entries of the feed only: it
\* holds at most max_articles titles and enrichment tasks, its loop never
\* stands on a position beyond max_articles, and every row it inserts carries
\* the link of the entry at the loop's position, which is at most
\* max_articles, whatever happened to the entries before it.
C14_OnlyFirstEntries ==
    /\ [](Running =>
            /\ Len(new_articles) <= max_articles
            /\ Len(tasks) <= max_articles
            /\ pc \in {"insert", "except"} =>
                  (idx <= max_articles /\ idx <= Len(entries))
            /\ pc \in {"loop", "gather"} =>
                  (idx <= max_articles + 1 /\ idx <= Len(entries) + 1)
            /\ \A k \in 1..Len(tasks) :
                  \E p \in 1..Len(entries) :
                      /\ p <= max_articles
                      /\ tasks[k].url = EntryLink(entries[p])
                      /\ rows[tasks[k].id].link = tasks[k].url)
    /\ [][(pc = "insert" /\ pc' = "loop") =>
            /\ idx <= max_articles
            /\ Len(rows') = Len(rows) + 1
            /\ rows'[Len(rows')].link = EntryLink(entries[idx])
            /\ SubSeq(rows', 1, Len(rows)) = rows]_vars
    /\ [][(Running /\ pc # "insert" /\ pc # "gather" /\ spc' = spc /\ sidx' = sidx)
            => rows' = rows]_vars

\* the startup run has returned with nothing inserted: the first entry had
\* no link, and the second, beyond max_articles, has a link storage lacks
C14_Witness ==
    /\ pc = "sched_start"
    /\ outcome = "returned"
    /\ Len(entries) > max_articles
    /\ ~LinkBearing(entries[1])
    /\ LinkBearing(entries[max_articles + 1])
    /\ ~Exists(rows, EntryLink(entries[max_articles + 1]))
    /\ new_articles = <<>>

\* a url/loc value that starts with the prefix and has a character other
\* than whitespace behind it
Kept(url) ==
    /\ url # None
    /\ LET cs == Chars[url]
           pf == Chars[TargetPrefix]
       IN  /\ Len(cs) > Len(pf)
           /\ \A i \in 1..Len(pf) : cs[i] = pf[i]
           /\ \E i \in (Len(pf) + 1)..Len(cs) : cs[i] \notin Whitespace

FirstN(seq, n) == SubSeq(seq, 1, Min(Len(seq), n))

ExampleUrlset == [root |-> "urlset", locs |-> << "p/a", "p/", "o/b" >>]

SeederStep == spc' # spc \/ sidx' # sidx

\* a URL already stored is skipped without extraction or insert
SeedSkipsStored ==
    [][(/\ spc = "check"
        /\ sidx <= Len(article_links)
        /\ Exists(rows, article_links[sidx])
        /\ SeederStep)
       => (/\ rows' = rows
           /\ spc' # "insert"
           /\ spc' = "check" => sidx' = sidx + 1)]_vars

\* extraction and insert of one URL add its row or nothing, leave the rows
\* stored before as they are, and the loop goes on with the next URL
SeedFailureSkipsOne ==
    [][(spc = "insert" /\ SeederStep)
       => (/\ spc' = "check"
           /\ sidx' = sidx + 1
           /\ article_links' = article_links
           /\ \/ rows' = rows
              \/ /\ Len(rows') = Len(rows) + 1
                 /\ SubSeq(rows', 1, Len(rows)) = rows
                 /\ rows'[Len(rows')].link = article_links[sidx])]_vars

\* C16 as stated: stored URLs are skipped, a failure skips one URL only, and
\* the batch always runs to completion: the loop is left only past the last
\* URL.
C16_AsStated ==
    /\ SeedSkipsStored
    /\ SeedFailureSkipsOne
    /\ [][(spc \in {"check", "insert"} /\ spc' \notin {"check", "insert"})
          => (spc' = "done" /\ sidx > Len(article_links))]_vars

\* C16 amended: stored URLs are skipped, a failure of extraction or insert
\* skips one URL only, and the loop is left either past the last URL or by an
\* existence check that raises, which ends seed_articles with the URLs from
\* that one on unprocessed.
C16_SeedBatch ==
    /\ SeedSkipsStored
    /\ SeedFailureSkipsOne
    /\ [][(spc \in {"check", "insert"} /\ spc' \notin {"check", "insert"})
          => \/ spc' = "done" /\ sidx > Len(article_links)
             \/ spc' = "crashed" /\ spc = "check" /\ sidx <= Len(article_links)]_vars

\* the first URL of the batch failed (it has no row) and the seeder is at the
\* insert of the second
C16_Witness ==
    /\ spc = "insert"
    /\ sidx = 2
    /\ article_links[1] # article_links[2]
    /\ ~Exists(rows, article_links[1])

\* the titles are those of entries at increasing feed positions, one per title
InFeedOrder ==
    \E f \in [1..Len(new_articles) -> 1..Len(entries)] :
        /\ \A j, k \in 1..Len(new_articles) : j < k => f[j] < f[k]
        /\ \A k \in 1..Len(new_articles) :
              /\ f[k] <= max_articles
              /\ LinkBearing(entries[f[k]])
              /\ new_articles[k] = EntryTitle(entries[f[k]])

\* C17: the list fetch_rss returns holds the titles of the rows this run
\* inserted, in feed order: a title is added exactly in the step that inserts
\* the row, never for an entry that is skipped or whose insert fails, and no
\* outcome of the enrichment changes the list.
C17_ReturnedTitles ==
    /\ [](outcome # "raised" => InFeedOrder)
    /\ [](pc \in {"loop", "insert", "except", "gather"} =>
            /\ Len(new_articles) = Len(tasks)
            /\ \A k \in 1..Len(tasks) :
                  /\ rows[tasks[k].id].title = new_articles[k]
                  /\ rows[tasks[k].id].link = tasks[k].url)
    /\ [][(pc = "insert" /\ pc' = "loop") =>
            /\ Len(rows') = Len(rows) + 1
            /\ rows'[Len(rows')].title = EntryTitle(entries[idx])
            /\ new_articles' = Append(new_articles, EntryTitle(entries[idx]))]_vars
    /\ [][new_articles' # new_articles =>
            \/ RunStarts /\ new_articles' = <<>>
            \/ pc = "insert" /\ pc' = "loop"]_vars
    /\ [][(outcome = "none" /\ outcome' = "returned") =>
            new_articles' = new_articles]_vars

\* the run has returned the title of its second entry alone: the link of the
\* first was stored before, and the enrichment of the row it inserted failed
C17_Witness ==
    /\ pc = "sleep"
    /\ outcome = "returned"
    /\ Len(entries) = 2
    /\ LinkBearing(entries[1])
    /\ EntryLink(entries[1]) # EntryLink(entries[2])
    /\ new_articles = << EntryTitle(entries[2]) >>
    /\ \E i \in LinkRows(EntryLink(entries[2])) :
          rows[i].content = "" /\ rows[i].fetched_at = FirstStamp

\* C18: a row is updated at most once in its life: its fetched_at is the
\* stamp of its insert or the one after it; the only step that changes a
\* stored row is the update of a task of the running fetch_rss, on a row not
\* updated before; a task is created only in the step that inserts its row,
\* one task per row, and no task is left when the run is over.
C18_EnrichedOnce ==
    /\ [](\A i \in 1..Len(rows) :
            rows[i].fetched_at \in {FirstStamp, LaterStamp(FirstStamp)})
    /\ [](\A j, k \in 1..Len(tasks) : tasks[j].id = tasks[k].id => j = k)
    /\ [](~Running => tasks = <<>>)
    /\ [][Len(tasks') > Len(tasks) =>
            /\ pc = "insert"
            /\ Len(tasks') = Len(tasks) + 1
            /\ Len(rows') = Len(rows) + 1
            /\ tasks'[Len(tasks')].id = rows'[Len(rows')].id
            /\ tasks'[Len(tasks')].st = "created"]_vars
    /\ [][\A i \in 1..Len(rows) :
            rows'[i] # rows[i] =>
                /\ pc = "gather"
                /\ rows[i].fetched_at = FirstStamp
                /\ rows[i].content = ""
                /\ \E k \in 1..Len(tasks) :
                      /\ tasks[k].id = rows[i].id
                      /\ tasks[k].st = "updating"
                      /\ tasks'[k].st = "done"]_vars

\* a run of the scheduler has enriched the one row it inserted, while the
\* row stored before it (by an earlier run whose enrichment failed, or by the
\* seeder) has no task and keeps the stamp of its insert
C18_Witness ==
    /\ pc = "gather"
    /\ caller = "schedule_fetch"
    /\ Len(rows) = 2
    /\ Len(tasks) = 1
    /\ tasks[1].id = 2
    /\ tasks[1].st = "done"
    /\ rows[1].fetched_at = FirstStamp
    /\ rows[2].fetched_at = LaterStamp(FirstStamp)

\* C19: while the check/insert loop of a run is at work, every enrichment
\* task of the run is a coroutine not yet started and the row of each is as
\* its insert left it; a task runs only while the run waits in gather.
C19_EnrichAfterLoop ==
    /\ pc \in {"loop", "insert", "except"} =>
          \A k \in 1..Len(tasks) :
              /\ tasks[k].st = "created"
              /\ rows[tasks[k].id] = FreshRow(k)
    /\ \A k \in 1..Len(tasks) : tasks[k].st # "created" => pc = "gather"

\* the dedup check of the second entry is due while the task of the first
\* entry's row waits unstarted
C19_Witness ==
    /\ pc = "loop"
    /\ idx = 2
    /\ Len(Considered(entries, max_articles)) = 2
    /\ LinkBearing(entries[2])
    /\ Len(tasks) = 1
    /\ tasks[1].st = "created"
    /\ tasks[1].url = EntryLink(entries[1])

\* the step that ends a run which gave up on the feed, or whose loop is over
\* (with or without failed inserts), or whose gather is over (with or without
\* failed enrichments)
SoftEnd ==
    \/ FeedGivenUp
    \/ pc = "gather" /\ pc' # "gather"
    \/ /\ pc = "loop"
       /\ idx > Len(Considered(entries, max_articles))
       /\ pc' \notin {"loop", "gather"}

\* C20: a run of the scheduler that ends in a soft failure returns: backoff
\* is 1 and the sleep that follows is in [0.8 x base, 1.2 x base]; the only
\* step that raises out of fetch_rss is a dedup check, and backoff is above 1
\* in a sleep only after a run that raised.
C20_SoftFailureIsSuccess ==
    /\ []((pc = "sleep" /\ backoff > 1) => outcome = "raised")
    /\ []((pc = "sleep" /\ outcome = "returned") =>
            /\ backoff = 1
            /\ 800 * base_interval <= delay
            /\ delay <= 1200 * base_interval)
    /\ [][(caller = "schedule_fetch" /\ SoftEnd) =>
            (outcome' = "returned" /\ backoff' = 1 /\ pc' = "sleep")]_vars
    /\ [][(outcome = "none" /\ outcome' = "raised") =>
            (InLoop /\ LinkBearing(CurrentEntry))]_vars
    /\ [][(backoff >= 1 /\ backoff' > backoff) => outcome' = "raised"]_vars

\* a run of the scheduler in which an insert failed has returned, and the
\* loop sleeps with backoff 1
C20_Witness ==
    /\ pc = "sleep"
    /\ caller = "schedule_fetch"
    /\ outcome = "returned"
    /\ parsed
    /\ ~clean
    /\ backoff = 1
    /\ delay = 1200 * base_interval

====
